---- MODULE Spec2Model ----
(***************************************************************************)
(* Model of ps/micro_functions/poly_intersect.py (and of the copy of       *)
(* dissolve / condense_properties in ps/routes/api/v1/psone_router.py).    *)
(*                                                                         *)
(* Geometry.  A shapely geometry is modelled by the set of axis-aligned    *)
(* rectangles <<x1, y1, x2, y2>> (pairwise disjoint interiors) whose union *)
(* is its area, plus the lower-dimensional members (points, segments) of a *)
(* GeometryCollection.  Coordinates are exact integers: one coordinate     *)
(* unit is 0.1 / Unit, so that COMPLEXITY_THRESHOLD = 1.2 is 12 * Unit and *)
(* every midpoint the splitter computes is representable.                  *)
(*                                                                         *)
(* Python objects.  A properties dict is an object on `heap`; features     *)
(* hold a reference to it, so that two features built from the same        *)
(* f['properties'] share one dict, as they do in the code.                 *)
(***************************************************************************)
EXTENDS Integers, Sequences, FiniteSets, TLC

\* ------------------------------------------------------------------ bounds
MaxFeatures == 2
MaxCalls == 2
GridSize == 3
CellSide == 8
HalvingDepth == 2

\* COMPLEXITY_THRESHOLD = 1.2, in tenths
COMPLEXITY_THRESHOLD == 12

Unit == 2 ^ HalvingDepth
Threshold == COMPLEXITY_THRESHOLD * Unit

\* ---------------------------------------------------------------- geometry
Min(S) == CHOOSE x \in S : \A y \in S : x <= y
Max(S) == CHOOSE x \in S : \A y \in S : x >= y
Min2(a, b) == IF a < b THEN a ELSE b
Max2(a, b) == IF a > b THEN a ELSE b

Cells == (0 .. GridSize - 1) \X (0 .. GridSize - 1)

CellRect(c) ==
    LET s == CellSide * Unit
    IN  <<c[1] * s, c[2] * s, (c[1] + 1) * s, (c[2] + 1) * s>>

Area(r) == (r[3] - r[1]) * (r[4] - r[2])

\* two rectangles share a boundary segment of positive length
Adjacent(r, s) ==
    \/ /\ (r[3] = s[1] \/ s[3] = r[1])
       /\ Min2(r[4], s[4]) > Max2(r[2], s[2])
    \/ /\ (r[4] = s[2] \/ s[4] = r[2])
       /\ Min2(r[3], s[3]) > Max2(r[1], s[1])

RECURSIVE Reach(_, _)
Reach(seen, rects) ==
    LET more == {r \in rects \ seen : \E s \in seen : Adjacent(r, s)}
    IN  IF more = {} THEN seen ELSE Reach(seen \cup more, rects)

\* the area is one edge-connected part (or empty)
Connected(rects) ==
    rects = {} \/ Reach({CHOOSE r \in rects : TRUE}, rects) = rects

\* the maximal edge-connected parts of an area: the polygons of a MultiPolygon
Components(rects) == {Reach({r}, rects) : r \in rects}

\* lexicographic order on rectangles, used to list the members of a
\* MultiPolygon in a fixed order
RectLess(r, s) ==
    \/ r[2] < s[2]
    \/ r[2] = s[2] /\ r[1] < s[1]
    \/ r[2] = s[2] /\ r[1] = s[1] /\ r[4] < s[4]
    \/ r[2] = s[2] /\ r[1] = s[1] /\ r[4] = s[4] /\ r[3] < s[3]

FirstRect(rects) == CHOOSE r \in rects : \A s \in rects \ {r} : RectLess(r, s)

RECURSIVE PartsInOrder(_)
PartsInOrder(parts) ==
    IF parts = {} THEN <<>>
    ELSE LET p == CHOOSE q \in parts :
                    \A o \in parts \ {q} : RectLess(FirstRect(q), FirstRect(o))
         IN  <<p>> \o PartsInOrder(parts \ {p})

\* shapely's geometry type of an area with lower-dimensional members `extra`
GeomType(rects, extra) ==
    IF extra # {} THEN "GeometryCollection"
    ELSE IF ~Connected(rects) THEN "MultiPolygon"
    ELSE "Polygon"

\* frame: the projections applied to the coordinates, in order; <<>> for
\* coordinates as given, <<<<sx, sy, a2>>>> after the azimuthal equidistant
\* projection centred at (sx / a2, sy / a2)
Geom(rects, extra) ==
    [type |-> GeomType(rects, extra), rects |-> rects, extra |-> extra,
     frame |-> <<>>]

\* shapely.geometry.box(minx, miny, maxx, maxy)
box(x1, y1, x2, y2) == <<x1, y1, x2, y2>>

Clip(r, bb) ==
    <<Max2(r[1], bb[1]), Max2(r[2], bb[2]),
      Min2(r[3], bb[3]), Min2(r[4], bb[4])>>

\* a degenerate rectangle d (a point or a segment) lies in the closure of area
Covered(d, area) ==
    IF d[1] = d[3] /\ d[2] = d[4]
    THEN \E a \in area : a[1] <= d[1] /\ d[1] <= a[3] /\ a[2] <= d[2] /\ d[2] <= a[4]
    ELSE IF d[1] = d[3]
    THEN \A t \in {d[2]} \cup {a[2] : a \in area} \cup {a[4] : a \in area} :
            (d[2] <= t /\ t < d[4]) =>
                \E a \in area : a[1] <= d[1] /\ d[1] <= a[3] /\ a[2] <= t /\ t < a[4]
    ELSE \A t \in {d[1]} \cup {a[1] : a \in area} \cup {a[3] : a \in area} :
            (d[1] <= t /\ t < d[3]) =>
                \E a \in area : a[2] <= d[2] /\ d[2] <= a[4] /\ a[1] <= t /\ t < a[3]

\* geom.intersection(bb): the part of the area inside the box; where the
\* geometry only touches the box (along an edge of the box or at a corner)
\* without area on the inside, the result has a segment or a point as an
\* extra member and is a GeometryCollection
intersection(geom, bb) ==
    LET clips == {Clip(r, bb) : r \in geom.rects}
        area  == {c \in clips : c[1] < c[3] /\ c[2] < c[4]}
        flat  == {c \in clips : c[1] <= c[3] /\ c[2] <= c[4]} \ area
        extra == {d \in flat : ~Covered(d, area)}
    IN  Geom(area, extra)

\* geometry.centroid as the exact pair (sx / a2, sy / a2), kept unreduced
centroid(geom) ==
    LET RECURSIVE Sum(_, _)
        Sum(S, k) ==
            IF S = {} THEN 0
            ELSE LET r == CHOOSE q \in S : TRUE
                     w == IF k = 1 THEN (r[1] + r[3]) * Area(r)
                          ELSE IF k = 2 THEN (r[2] + r[4]) * Area(r)
                          ELSE 2 * Area(r)
                 IN  w + Sum(S \ {r}, k)
    IN  <<Sum(geom.rects, 1), Sum(geom.rects, 2), Sum(geom.rects, 3)>>

\* ---------------------------------------------------------------- splitter
\* a GeoJSON-like feature; `properties` is a reference into the heap
Feature(props, geom) ==
    [type |-> "Feature", properties |-> props, geometry |-> geom]

\* explode(mapping(geometry)['coordinates']): the coordinate tuples
explode(geom) ==
    UNION {{<<r[1], r[2]>>, <<r[3], r[2]>>, <<r[3], r[4]>>, <<r[1], r[4]>>} :
              r \in geom.rects}

\* bounds raises ValueError: mapping() of a GeometryCollection has no
\* 'coordinates' key (KeyError, re-raised as ValueError), and unpacking
\* zip(*[]) of a geometry without coordinates fails
bounds_raises(f) ==
    \/ f.geometry.type = "GeometryCollection"
    \/ explode(f.geometry) = {}

bounds(f) ==
    LET pts == explode(f.geometry)
        x == {p[1] : p \in pts}
        y == {p[2] : p \in pts}
    IN  <<Min(x), Min(y), Max(x), Max(y)>>

\* get_split_boxes with `and` for `or` in the threshold test
get_split_boxes_and(f) ==
    LET b  == bounds(f)
        x1 == b[1]
        y1 == b[2]
        x2 == b[3]
        y2 == b[4]
    IN  IF x2 - x1 > Threshold /\ y2 - y1 > Threshold
        THEN IF x2 - x1 > y2 - y1
             THEN LET x_split == x1 + (x2 - x1) \div 2
                  IN  <<box(x1, y1, x_split, y2), box(x_split, y1, x2, y2)>>
             ELSE LET y_split == y1 + (y2 - y1) \div 2
                  IN  <<box(x1, y1, x2, y_split), box(x1, y_split, x2, y2)>>
        ELSE <<>>

\* get_split_boxes splitting along the shorter axis
get_split_boxes_shorter(f) ==
    LET b  == bounds(f)
        x1 == b[1]
        y1 == b[2]
        x2 == b[3]
        y2 == b[4]
    IN  IF x2 - x1 > Threshold \/ y2 - y1 > Threshold
        THEN IF x2 - x1 < y2 - y1
             THEN LET x_split == x1 + (x2 - x1) \div 2
                  IN  <<box(x1, y1, x_split, y2), box(x_split, y1, x2, y2)>>
             ELSE LET y_split == y1 + (y2 - y1) \div 2
                  IN  <<box(x1, y1, x2, y_split), box(x1, y_split, x2, y2)>>
        ELSE <<>>

\* <<>> stands for None
get_split_boxes(f) ==
    LET b  == bounds(f)
        x1 == b[1]
        y1 == b[2]
        x2 == b[3]
        y2 == b[4]
    IN  IF x2 - x1 > Threshold \/ y2 - y1 > Threshold
        THEN IF x2 - x1 > y2 - y1
             THEN LET x_split == x1 + (x2 - x1) \div 2
                  IN  <<box(x1, y1, x_split, y2), box(x_split, y1, x2, y2)>>
             ELSE LET y_split == y1 + (y2 - y1) \div 2
                  IN  <<box(x1, y1, x2, y_split), box(x1, y_split, x2, y2)>>
        ELSE <<>>

split_multipolygon(f) ==
    LET polys == PartsInOrder(Components(f.geometry.rects))
    IN  [i \in 1 .. Len(polys) |-> Feature(f.properties, Geom(polys[i], {}))]

\* the features split_polygon recurses on for one box: the intersection, or
\* its polygons when it is a MultiPolygon.  Every geometry of the model is
\* valid, so geom.buffer(0) is never taken.
split_feats(f, bb) ==
    LET split_feat == Feature(f.properties, intersection(f.geometry, bb))
    IN  IF split_feat.geometry.type = "MultiPolygon"
        THEN split_multipolygon(split_feat)
        ELSE <<split_feat>>

RECURSIVE ConcatAll(_)
ConcatAll(ss) == IF ss = <<>> THEN <<>> ELSE Head(ss) \o ConcatAll(Tail(ss))

\* split_polygon looking at the first box only
recursive_calls_first_box(f, bbs) == split_feats(f, bbs[1])

\* all features split_polygon(f) recurses on, in call order
recursive_calls(f, bbs) ==
    ConcatAll([i \in 1 .. Len(bbs) |-> split_feats(f, bbs[i])])

\* the result of split_polygon: the leaves, or raised when bounds raises
\* somewhere in the recursion
RECURSIVE split_polygon(_)
RECURSIVE split_each(_)
split_each(feats) ==
    IF feats = <<>> THEN [raised |-> FALSE, features |-> <<>>]
    ELSE LET first == split_polygon(Head(feats))
         IN  IF first.raised THEN [raised |-> TRUE, features |-> <<>>]
             ELSE LET rest == split_each(Tail(feats))
                  IN  IF rest.raised THEN [raised |-> TRUE, features |-> <<>>]
                      ELSE [raised |-> FALSE,
                            features |-> first.features \o rest.features]

split_polygon(f) ==
    IF bounds_raises(f) THEN [raised |-> TRUE, features |-> <<>>]
    ELSE LET bbs == get_split_boxes(f)
         IN  IF bbs # <<>>
             THEN split_each(recursive_calls(f, bbs))
             ELSE [raised |-> FALSE, features |-> <<f>>]

\* ------------------------------------------------------- python values
\* d[key] = val on a dict
SetItem(d, key, val) ==
    [k \in DOMAIN d \cup {key} |-> IF k = key THEN val ELSE d[k]]

Crs(name) == [type |-> "name", properties |-> [name |-> name]]

LOCAL_CRS_NAME == "urn:ogc:def:uom:EPSG::9102"

\* a dict with 'type' and 'features' (a list) and, with has_crs, 'crs'
FeatureSet(type, features, has_crs, crs) ==
    [pytype |-> "dict", has_features |-> TRUE, features_pytype |-> "list",
     type |-> type, features |-> features, has_crs |-> has_crs, crs |-> crs]

\* values that are no feature set: a string, a dict without 'features', a
\* dict whose 'features' is a dict
Malformed ==
    {[pytype |-> "str", has_features |-> FALSE, features_pytype |-> "NoneType",
      type |-> "", features |-> <<>>, has_crs |-> FALSE, crs |-> Crs("")],
     [pytype |-> "dict", has_features |-> FALSE, features_pytype |-> "NoneType",
      type |-> "FeatureCollection", features |-> <<>>, has_crs |-> FALSE,
      crs |-> Crs("")],
     [pytype |-> "dict", has_features |-> TRUE, features_pytype |-> "dict",
      type |-> "FeatureCollection", features |-> <<>>, has_crs |-> FALSE,
      crs |-> Crs("")]}

NoError == [exc |-> "None", args |-> <<>>]

\* --------------------------------------------------------------- inputs
\* GeoJSON geometries of the payloads: cells of the grid (a Polygon when
\* they are edge-connected, a MultiPolygon otherwise), and a
\* GeometryCollection of a Polygon and a Point
RawGeometries ==
    {[cells |-> {<<0, 0>>}, points |-> {}],
     [cells |-> {<<0, 0>>, <<1, 0>>}, points |-> {}],
     [cells |-> {<<0, 0>>, <<1, 1>>}, points |-> {}],
     [cells |-> {<<0, 0>>, <<1, 0>>, <<0, 1>>}, points |-> {}],
     [cells |-> {<<0, 0>>}, points |-> {<<1, 1>>}]}

PayloadKeys == {"a", "dissolve_id"}
PayloadVals == {1}
RawProperties == UNION {[K -> PayloadVals] : K \in SUBSET PayloadKeys}

RawFeatures == [geometry : RawGeometries, properties : RawProperties]

RawCrs == {Crs("urn:ogc:def:crs:OGC:1.3:CRS84")}

Payloads ==
    UNION {[features : [1 .. n -> RawFeatures],
            has_crs : {FALSE}, crs : {Crs("")}]
           \cup [features : [1 .. n -> RawFeatures],
                 has_crs : {TRUE}, crs : RawCrs] : n \in 0 .. MaxFeatures}

\* shapely.geometry.shape(geojson geometry)
shape(g) ==
    LET s == CellSide * Unit
    IN  Geom({CellRect(c) : c \in g.cells},
             {<<p[1] * s + s, p[2] * s + s, p[1] * s + s, p[2] * s + s>> :
                 p \in g.points})

\* json2ogr: every geometry becomes a shapely geometry, every feature's
\* properties dict (an object of its own) gets 'id' = its position
json2ogr(in_json) ==
    LET n == Len(in_json.features)
    IN  [heap |-> [i \in 1 .. n |->
                      SetItem(in_json.features[i].properties, "id", i - 1)],
         featureset |->
             FeatureSet("FeatureCollection",
                        [i \in 1 .. n |->
                            Feature(i, shape(in_json.features[i].geometry))],
                        in_json.has_crs, in_json.crs)]

\* ------------------------------------------------------------- dissolve
\* dissolve's checks without the one on the type of 'features'
valid_input_no_list_check(featureset) ==
    /\ featureset.pytype = "dict"
    /\ featureset.has_features

valid_input(featureset) ==
    /\ featureset.pytype = "dict"
    /\ featureset.has_features
    /\ featureset.features_pytype = "list"

\* condense_properties with any() for all()
condense_properties_any(properties) ==
    LET first == properties[1]
        keep  == {key \in DOMAIN first :
                     \E i \in 1 .. Len(properties) :
                         /\ key \in DOMAIN properties[i]
                         /\ first[key] = properties[i][key]}
    IN  [key \in keep |-> first[key]]

condense_properties(properties) ==
    LET first == properties[1]
        keep  == {key \in DOMAIN first :
                     \A i \in 1 .. Len(properties) :
                         /\ key \in DOMAIN properties[i]
                         /\ first[key] = properties[i][key]}
    IN  [key \in keep |-> first[key]]

\* shapely.ops.unary_union of areas made of whole grid cells
unary_union(geoms) ==
    LET area  == UNION {geoms[i].rects : i \in 1 .. Len(geoms)}
        extra == UNION {geoms[i].extra : i \in 1 .. Len(geoms)}
    IN  Geom(area, {d \in extra : ~Covered(d, area)})

\* the returned dict without the copy of 'crs'
new_featureset_no_crs(featureset, new_features) ==
    FeatureSet(featureset.type, new_features, FALSE, Crs(""))

\* the returned dict: 'type', 'features' and, when the input has it, 'crs'
new_featureset(featureset, new_features) ==
    FeatureSet(featureset.type, new_features,
               featureset.has_crs,
               IF featureset.has_crs THEN featureset.crs ELSE Crs(""))

\* dissolve(featureset) on heap h: what it raises or returns, and the heap
dissolve_call(featureset, h) ==
    IF ~valid_input(featureset)
    THEN [err |-> [exc |-> "ValueError", args |-> <<"", featureset>>],
          heap |-> h, featureset |-> featureset]
    ELSE LET feats == featureset.features
             n == Len(feats)
             new_properties ==
                 SetItem(condense_properties(
                             [i \in 1 .. n |-> h[feats[i].properties]]),
                         "dissolve_id", 0)
             new_heap == IF n > 0 THEN Append(h, new_properties) ELSE h
             new_features ==
                 IF n > 0
                 THEN <<Feature(Len(new_heap),
                                unary_union([i \in 1 .. n |-> feats[i].geometry]))>>
                 ELSE <<>>
         IN  [err |-> NoError, heap |-> new_heap,
              featureset |-> new_featureset(featureset, new_features)]

\* ---------------------------------------------------------------- split
RECURSIVE split_loop(_, _, _, _)
split_loop(feats, i, h, new_features) ==
    IF i > Len(feats)
    THEN [raised |-> FALSE, heap |-> h, features |-> new_features]
    ELSE LET f  == feats[i]
             h2 == [h EXCEPT ![f.properties] = SetItem(@, "split_id", i - 1)]
             r  == IF f.geometry.type = "MultiPolygon"
                   THEN split_each(split_multipolygon(f))
                   ELSE IF f.geometry.type = "Polygon"
                   THEN split_polygon(f)
                   ELSE [raised |-> FALSE, features |-> <<>>]
         IN  IF r.raised
             THEN [raised |-> TRUE, heap |-> h2, features |-> <<>>]
             ELSE split_loop(feats, i + 1, h2, new_features \o r.features)

\* split(featureset) on heap h
split_call(featureset, h) ==
    LET r == split_loop(featureset.features, 1, h, <<>>)
    IN  IF r.raised
        THEN [err |-> [exc |-> "ValueError", args |-> <<"'coordinates'">>],
              heap |-> r.heap, featureset |-> featureset]
        ELSE [err |-> NoError, heap |-> r.heap,
              featureset |-> FeatureSet(featureset.type, r.features,
                                        featureset.has_crs, featureset.crs)]

\* -------------------------------------------------------- project_local
\* shapely.ops.transform(project, geom), project the projection centred at
\* the given centroid
transform(project, geom) == [geom EXCEPT !.frame = Append(@, project)]

project_feature(f, project) ==
    Feature(f.properties, transform(project, f.geometry))

RECURSIVE project_loop(_, _, _, _)
project_loop(feats, i, h, new_features) ==
    IF i > Len(feats)
    THEN [raised |-> FALSE, heap |-> h, features |-> new_features]
    ELSE LET f == feats[i]
         IN  IF f.geometry.type = "GeometryCollection"
             THEN \* np.mean: numpy is not imported
                  [raised |-> TRUE, heap |-> h, features |-> <<>>]
             ELSE LET xy == centroid(f.geometry)
                      new_feat == project_feature(f, xy)
                      h2 == [h EXCEPT ![new_feat.properties] =
                                          SetItem(@, "centroid", xy)]
                  IN  project_loop(feats, i + 1, h2,
                                   Append(new_features, new_feat))

\* project_local without the early return
already_local_never(featureset) == FALSE

already_local(featureset) ==
    featureset.has_crs /\ featureset.crs.properties.name = LOCAL_CRS_NAME

\* project_local(featureset) on heap h
project_local_call(featureset, h) ==
    IF already_local(featureset)
    THEN [err |-> NoError, heap |-> h, featureset |-> featureset]
    ELSE LET r == project_loop(featureset.features, 1, h, <<>>)
         IN  IF r.raised
             THEN [err |-> [exc |-> "NameError",
                            args |-> <<"name 'np' is not defined">>],
                   heap |-> r.heap, featureset |-> featureset]
             ELSE [err |-> NoError, heap |-> r.heap,
                   featureset |-> FeatureSet(featureset.type, r.features,
                                             TRUE, Crs(LOCAL_CRS_NAME))]

\* ---------------------------------------------------------------- state
VARIABLES
    fs,           \* the feature set the caller holds (the next call's argument)
    heap,         \* the properties dicts, by reference
    op,           \* the last function called
    err,          \* the exception the last call raised, or NoError
    returned,     \* the last call returned a feature set (now in fs)
    pre_fs,       \* the argument of the last call
    pre_heap,     \* the heap before the last call
    calls,        \* number of calls made
    pc,           \* position in split_polygon's recursion ("idle" outside it)
    root,         \* the feature split_polygon was called on
    todo,         \* the pending recursive calls of split_polygon, next first
    new_features, \* the leaves split_polygon has collected
    parent,       \* the feature of the last call that split
    children      \* the features that call recursed on

vars == <<fs, heap, op, err, returned, pre_fs, pre_heap, calls,
          pc, root, todo, new_features, parent, children>>

pipeline_vars == <<fs, heap, op, err, returned, pre_fs, pre_heap, calls>>
recursion_vars == <<pc, root, todo, new_features, parent, children>>

NoFeature == Feature(0, Geom({}, {}))

\* ------------------------------------------------------------- pipeline
\* The caller runs the stages in the order normalise (json2ogr), dissolve,
\* split, project_local; it may skip a stage and may call one again.  A
\* raised exception ends the request.
Rank(stage) ==
    CASE stage = "json2ogr" -> 0
      [] stage = "dissolve" -> 1
      [] stage = "split" -> 2
      [] stage = "project_local" -> 3

Init ==
    /\ \E input \in {json2ogr(p) : p \in Payloads}
                    \cup {[heap |-> <<>>, featureset |-> v] : v \in Malformed} :
          /\ fs = input.featureset
          /\ heap = input.heap
          /\ pre_fs = input.featureset
          /\ pre_heap = input.heap
    /\ op = "json2ogr"
    /\ err = NoError
    /\ returned = FALSE
    /\ calls = 0
    /\ pc = "idle"
    /\ root = NoFeature
    /\ todo = <<>>
    /\ new_features = <<>>
    /\ parent = NoFeature
    /\ children = <<>>

CanCall(stage) ==
    /\ pc = "idle"
    /\ err = NoError
    /\ calls < MaxCalls
    /\ Rank(stage) >= Rank(op)

Call(stage, r) ==
    /\ fs' = r.featureset
    /\ heap' = r.heap
    /\ err' = r.err
    /\ returned' = (r.err = NoError)
    /\ op' = stage
    /\ pre_fs' = fs
    /\ pre_heap' = heap
    /\ calls' = calls + 1
    /\ UNCHANGED recursion_vars

dissolve ==
    /\ CanCall("dissolve")
    /\ Call("dissolve", dissolve_call(fs, heap))

split ==
    /\ CanCall("split")
    /\ valid_input(fs)
    /\ Call("split", split_call(fs, heap))

project_local ==
    /\ CanCall("project_local")
    /\ valid_input(fs)
    /\ Call("project_local", project_local_call(fs, heap))

Next == dissolve \/ split \/ project_local

Spec == Init /\ [][Next]_vars

\* ------------------------------------------- split_polygon, call by call
\* every Polygon made of cells of the grid
RootPolygons ==
    {Geom({CellRect(c) : c \in S}, {}) :
        S \in {T \in SUBSET Cells : T # {} /\
                  Connected({CellRect(c) : c \in T})}}

InitSplit ==
    /\ \E g \in RootPolygons :
          /\ root = Feature(1, g)
          /\ todo = <<Feature(1, g)>>
    /\ pc = "split_polygon"
    /\ new_features = <<>>
    /\ parent = NoFeature
    /\ children = <<>>
    /\ fs = FeatureSet("FeatureCollection", <<>>, FALSE, Crs(""))
    /\ heap = <<>>
    /\ pre_fs = FeatureSet("FeatureCollection", <<>>, FALSE, Crs(""))
    /\ pre_heap = <<>>
    /\ op = "json2ogr"
    /\ err = NoError
    /\ returned = FALSE
    /\ calls = 0

\* a call whose get_split_boxes returns boxes: recurse on the intersections
SplitPolygonRecurse ==
    /\ pc = "split_polygon"
    /\ todo # <<>>
    /\ ~bounds_raises(Head(todo))
    /\ get_split_boxes(Head(todo)) # <<>>
    /\ LET calls_made == recursive_calls(Head(todo), get_split_boxes(Head(todo)))
       IN  /\ todo' = calls_made \o Tail(todo)
           /\ parent' = Head(todo)
           /\ children' = calls_made
    /\ UNCHANGED <<pc, root, new_features>>
    /\ UNCHANGED pipeline_vars

\* a call whose get_split_boxes returns None: the feature is a leaf
SplitPolygonLeaf ==
    /\ pc = "split_polygon"
    /\ todo # <<>>
    /\ ~bounds_raises(Head(todo))
    /\ get_split_boxes(Head(todo)) = <<>>
    /\ new_features' = Append(new_features, Head(todo))
    /\ todo' = Tail(todo)
    /\ UNCHANGED <<pc, root, parent, children>>
    /\ UNCHANGED pipeline_vars

\* a call in which bounds raises: the exception leaves every pending call
SplitPolygonRaise ==
    /\ pc = "split_polygon"
    /\ todo # <<>>
    /\ bounds_raises(Head(todo))
    /\ pc' = "raised"
    /\ todo' = <<>>
    /\ new_features' = <<>>
    /\ UNCHANGED <<root, parent, children>>
    /\ UNCHANGED pipeline_vars

\* the outermost call returns new_features
SplitPolygonReturn ==
    /\ pc = "split_polygon"
    /\ todo = <<>>
    /\ pc' = "done"
    /\ UNCHANGED <<root, todo, new_features, parent, children>>
    /\ UNCHANGED pipeline_vars

NextSplit ==
    \/ SplitPolygonRecurse
    \/ SplitPolygonLeaf
    \/ SplitPolygonRaise
    \/ SplitPolygonReturn

SpecSplit == InitSplit /\ [][NextSplit]_vars

\* =============================================================== claims
Props(h, featureset, i) == h[featureset.features[i].properties]

HasLocalCrs(featureset) ==
    /\ featureset.has_crs
    /\ featureset.crs.properties.name = "urn:ogc:def:uom:EPSG::9102"

Extent(f) ==
    LET xs == {r[1] : r \in f.geometry.rects} \cup {r[3] : r \in f.geometry.rects}
        ys == {r[2] : r \in f.geometry.rects} \cup {r[4] : r \in f.geometry.rects}
    IN  [width |-> Max(xs) - Min(xs), height |-> Max(ys) - Min(ys)]

MaxExtent(f) == Max2(Extent(f).width, Extent(f).height)

RECURSIVE TotalArea(_)
TotalArea(rects) ==
    IF rects = {} THEN 0
    ELSE LET r == CHOOSE q \in rects : TRUE
         IN  Area(r) + TotalArea(rects \ {r})

Within(r, c) == c[1] <= r[1] /\ r[3] <= c[3] /\ c[2] <= r[2] /\ r[4] <= c[4]

InteriorsDisjoint(r, s) ==
    \/ Min2(r[3], s[3]) <= Max2(r[1], s[1])
    \/ Min2(r[4], s[4]) <= Max2(r[2], s[2])

RECURSIVE SumSeq(_)
SumSeq(ns) == IF ns = <<>> THEN 0 ELSE Head(ns) + SumSeq(Tail(ns))

\* C1: the feature dissolve returns for a non-empty feature set has exactly
\* the keys that every input feature carries with one and the same value,
\* each with the first feature's value, plus dissolve_id = 0.
C1_DissolveConservesCommonProperties ==
    (op = "dissolve" /\ returned /\ Len(pre_fs.features) > 0) =>
        LET n   == Len(pre_fs.features)
            in  == [i \in 1 .. n |-> Props(pre_heap, pre_fs, i)]
            all == UNION {DOMAIN in[i] : i \in 1 .. n}
            common == {k \in all :
                          /\ \A i \in 1 .. n : k \in DOMAIN in[i]
                          /\ \A i, j \in 1 .. n : in[i][k] = in[j][k]}
            out == Props(heap, fs, 1)
        IN  /\ Len(fs.features) = 1
            /\ DOMAIN out = common \cup {"dissolve_id"}
            /\ out["dissolve_id"] = 0
            /\ \A k \in common \ {"dissolve_id"} : out[k] = in[1][k]

\* dissolve of two or more features kept a common key and dropped others
C1_Witness ==
    /\ op = "dissolve"
    /\ returned
    /\ Len(pre_fs.features) >= 2
    /\ "a" \in DOMAIN Props(heap, fs, 1)
    /\ "id" \notin DOMAIN Props(heap, fs, 1)
    /\ "dissolve_id" \in DOMAIN Props(pre_heap, pre_fs, 1)
    /\ Props(pre_heap, pre_fs, 1)["dissolve_id"] # 0

\* C2: dissolve of a structurally valid feature set returns a feature set
\* with no feature when the input has none and one feature otherwise, with
\* the input's type, and with a crs exactly when the input has one, the same.
C2_DissolveShape ==
    (op = "dissolve" /\ pre_fs.pytype = "dict" /\ pre_fs.has_features
        /\ pre_fs.features_pytype = "list") =>
        /\ returned
        /\ fs.pytype = "dict" /\ fs.has_features /\ fs.features_pytype = "list"
        /\ Len(fs.features) = (IF Len(pre_fs.features) = 0 THEN 0 ELSE 1)
        /\ fs.type = pre_fs.type
        /\ fs.has_crs = pre_fs.has_crs
        /\ pre_fs.has_crs => fs.crs = pre_fs.crs

\* dissolve collapsed several features of a feature set that has a crs
C2_Witness ==
    /\ op = "dissolve"
    /\ returned
    /\ Len(pre_fs.features) >= 2
    /\ Len(fs.features) = 1
    /\ pre_fs.has_crs
    /\ fs.has_crs

\* C3: dissolve of a value that is no dict, has no 'features', or whose
\* 'features' is no list raises an error carrying that value and returns
\* nothing.
C3_DissolveRejectsMalformed ==
    (op = "dissolve" /\ ~(pre_fs.pytype = "dict" /\ pre_fs.has_features
                           /\ pre_fs.features_pytype = "list")) =>
        /\ ~returned
        /\ err.exc = "ValueError"
        /\ Len(err.args) = 2
        /\ err.args[2] = pre_fs
        /\ fs = pre_fs
        /\ heap = pre_heap

\* dissolve was called on a dict whose 'features' is not a list, and raised
C3_Witness ==
    /\ op = "dissolve"
    /\ pre_fs.pytype = "dict"
    /\ pre_fs.has_features
    /\ pre_fs.features_pytype # "list"
    /\ err.exc = "ValueError"

\* C4: every feature split_polygon returns has a bounding box of width and
\* height at most the complexity threshold.
C4_LeavesWithinThreshold ==
    pc = "done" =>
        \A i \in 1 .. Len(new_features) :
            /\ Extent(new_features[i]).width <= COMPLEXITY_THRESHOLD * Unit
            /\ Extent(new_features[i]).height <= COMPLEXITY_THRESHOLD * Unit

\* a polygon above the threshold on both axes was split into four or more
C4_Witness ==
    /\ pc = "done"
    /\ Extent(root).width > COMPLEXITY_THRESHOLD * Unit
    /\ Extent(root).height > COMPLEXITY_THRESHOLD * Unit
    /\ Len(new_features) >= 4

\* C5: the recursion of split_polygon ends by returning the list of leaves
\* (stated as: it never ends by raising).
C5_SplitPolygonReturnsLeaves == pc # "raised"

\* each step of the recursion either adds a leaf, or ends the recursion, or
\* replaces a pending call by calls on smaller boxes: the recursion ends
SplitPolygonProgress ==
    [][\/ Len(new_features') > Len(new_features)
       \/ pc' \in {"done", "raised"}
       \/ /\ Len(todo') > Len(todo)
          /\ \A i \in 1 .. Len(children') :
                children'[i].geometry.type = "Polygon" =>
                    Extent(children'[i]).width * Extent(children'[i]).height
                        < Extent(parent').width * Extent(parent').height]_vars

\* C6: the pieces split_polygon returns cover the polygon exactly: each lies
\* in it, no two overlap, and their areas add up to its area.
C6_PiecesCoverPolygon ==
    pc = "done" =>
        LET n == Len(new_features)
            piece(i) == new_features[i].geometry.rects
        IN  /\ \A i \in 1 .. n : \A r \in piece(i) :
                   \E c \in root.geometry.rects : Within(r, c)
            /\ \A i, j \in 1 .. n : \A r \in piece(i), s \in piece(j) :
                   (i # j \/ r # s) => InteriorsDisjoint(r, s)
            /\ SumSeq([i \in 1 .. n |-> TotalArea(piece(i))])
                   = TotalArea(root.geometry.rects)

\* a polygon that does not fill its bounding box was split in four or more
C6_Witness ==
    /\ pc = "done"
    /\ Len(new_features) >= 4
    /\ TotalArea(root.geometry.rects) < Extent(root).width * Extent(root).height

\* the pieces split makes of the input feature f
PiecesOf(f) ==
    IF f.geometry.type = "MultiPolygon"
    THEN split_each(split_multipolygon(f)).features
    ELSE IF f.geometry.type = "Polygon" THEN split_polygon(f).features
    ELSE <<>>

\* C7: after split, the input feature at position i (from 0) carries
\* split_id = i, and so does every piece of the output that descends from it.
C7_SplitIdIsPosition ==
    (op = "split" /\ returned) =>
        LET n == Len(pre_fs.features)
            count == [i \in 1 .. n |-> Len(PiecesOf(pre_fs.features[i]))]
            start(i) == SumSeq(SubSeq(count, 1, i - 1))
        IN  \A i \in 1 .. n :
               /\ "split_id" \in DOMAIN Props(heap, pre_fs, i)
               /\ Props(heap, pre_fs, i)["split_id"] = i - 1
               /\ \A k \in 1 .. count[i] :
                      Props(heap, fs, start(i) + k)["split_id"] = i - 1

\* the same, for input features that each have a properties dict of their own
SplitIdIsPositionUnshared ==
    (op = "split" /\ returned
        /\ \A i, j \in 1 .. Len(pre_fs.features) :
              i # j => pre_fs.features[i].properties # pre_fs.features[j].properties)
    => C7_SplitIdIsPosition

\* C8: a project_local that returns leaves the marker as the crs, and
\* project_local of a feature set that carries the marker returns it as it
\* is: same features, geometries, properties and crs.
C8_ProjectLocalMarker ==
    /\ (op = "project_local" /\ returned) => HasLocalCrs(fs)
    /\ (op = "project_local" /\ HasLocalCrs(pre_fs)) =>
           /\ returned
           /\ fs = pre_fs
           /\ heap = pre_heap

\* project_local was called on the result of a project_local that projected
C8_Witness ==
    /\ op = "project_local"
    /\ returned
    /\ HasLocalCrs(pre_fs)
    /\ Len(pre_fs.features) >= 1
    /\ pre_fs.features[1].geometry.frame # <<>>
    /\ "centroid" \in DOMAIN Props(pre_heap, pre_fs, 1)

\* C9: after project_local of a feature set without the marker, every output
\* feature's 'centroid' is the centroid its own geometry had before.
C9_CentroidIsOwn ==
    (op = "project_local" /\ returned /\ ~HasLocalCrs(pre_fs)) =>
        \A i \in 1 .. Len(fs.features) :
            /\ "centroid" \in DOMAIN Props(heap, fs, i)
            /\ Props(heap, fs, i)["centroid"]
                   = centroid(pre_fs.features[i].geometry)

\* the same, for input features that each have a properties dict of their own
CentroidIsOwnUnshared ==
    (op = "project_local" /\ returned
        /\ \A i, j \in 1 .. Len(pre_fs.features) :
              i # j => pre_fs.features[i].properties # pre_fs.features[j].properties)
    => C9_CentroidIsOwn

PolygonChildren == {i \in 1 .. Len(children) : children[i].geometry.type = "Polygon"}

\* C10: every piece a split makes has max(width, height) at most half of
\* the split feature's max(width, height).
C10_MaxExtentHalved ==
    \A i \in PolygonChildren : 2 * MaxExtent(children[i]) <= MaxExtent(parent)

\* C10 as amended: a feature is split along its longer axis (Y on a tie);
\* every piece has, along that axis, at most half of the feature's
\* max(width, height), and along the other axis at most the feature's extent.
C10_SplitAxisHalved ==
    \A i \in PolygonChildren :
        LET p == Extent(parent)
            c == Extent(children[i])
        IN  IF p.width > p.height
            THEN 2 * c.width <= MaxExtent(parent) /\ c.height <= p.height
            ELSE 2 * c.height <= MaxExtent(parent) /\ c.width <= p.width

\* a split whose piece keeps more than half of the feature's larger extent
C10_Witness ==
    /\ children # <<>>
    /\ \E i \in PolygonChildren : 2 * MaxExtent(children[i]) > MaxExtent(parent)
    /\ \E i \in PolygonChildren : Extent(children[i]).width < Extent(parent).width

\* ---------------------------------------------------------- consistency
\* the call-by-call recursion computes what split_polygon computes
RecursionAgrees ==
    /\ pc = "done" =>
          /\ ~split_polygon(root).raised
          /\ new_features = split_polygon(root).features
    /\ pc = "raised" => split_polygon(root).raised

\* every extent the splitter halves is even: the midpoints are exact
MidpointsExact ==
    \A i \in 1 .. Len(todo) :
        (~bounds_raises(todo[i]) /\ get_split_boxes(todo[i]) # <<>>) =>
            LET e == Extent(todo[i])
            IN  IF e.width > e.height THEN e.width % 2 = 0 ELSE e.height % 2 = 0

====
